---- MODULE Spec2Model ----
(***************************************************************************)
(* KafkaConsumer of insights-kafka-monitor (consumer.go): the consumer     *)
(* group lifecycle (Serve, its driver goroutine, Setup / Cleanup /         *)
(* ConsumeClaim called back by the group client, Close) and the message    *)
(* handler with its two counters.                                          *)
(*                                                                         *)
(* The group client (sarama.ConsumerGroup) is a collaborator: its Consume  *)
(* is modelled as an environment that joins, calls Setup, runs one         *)
(* ConsumeClaim goroutine per partition, calls Cleanup and returns, and    *)
(* that may fail at its join or at its return.                             *)
(***************************************************************************)
EXTENDS Integers, FiniteSets, Sequences, TLC

\* ---------------------------------------------------------------- bounds
\* partitions claimed in a generation (one ConsumeClaim goroutine each)
NPart == 2
\* calls of ProcessMessage over the life of the consumer
MaxMsgs == 2
\* generations (calls of Consume) the group client goes through
MaxGen == 2
\* calls of Close()
MaxClose == 2
\* direct calls of HandleMessage(nil)
MaxNil == 1
\* direct calls of HandleMessage with a message, one after another
MaxDirect == 6
\* messages delivered to the claims of one generation in ClaimSpec
MaxClaimMsgs == 3

Partitions == 1..NPart
\* thread 0 calls HandleMessage directly; thread p >= 1 is ConsumeClaim of partition p
Threads == 0..NPart

\* *sarama.ConsumerMessage values: the nil pointer, a message, and a message on
\* which ProcessMessage reports an error
NilMsg == "nil"
Messages == {"ok", "bad"}

VARIABLES
    Cancel,         \* consumer.Cancel # nil
    ctxDone,        \* the context made by Serve is cancelled
    ConsumerGroup,  \* "open" | "closed": the group client
    Ready,          \* consumer.Ready: the channel the field refers to (0 = the constructor's)
    chanClosed,     \* the ready channels that have been closed (fired)
    numberOfSuccessfullyConsumedMessages,
    numberOfErrorsConsumingMessages,
    servePc,        \* position of the caller of Serve()
    serveCh,        \* the channel Serve()'s caller read from consumer.Ready
    driverPc,       \* position of the goroutine started by Serve()
    sessPc,         \* position of the group client inside Consume
    gen,            \* number of Consume calls so far (the current generation)
    consumeErr,     \* err of line 145: what the last Consume returned ("none" before)
    pc,             \* per thread: position in ConsumeClaim / HandleMessage
    cur,            \* per thread: the message being handled
    tmp,            \* per thread: the counter value read by the increment
    owed,           \* per partition: messages received from claim.Messages()
                    \* minus calls of session.MarkMessage
    processed,      \* calls of ProcessMessage
    failed,         \* calls of ProcessMessage that returned an error
    nilCalls,       \* calls of HandleMessage(nil)
    closePc,        \* position of the caller of Close()
    closeCalls,     \* calls of Close() so far
    closeResult,    \* what the last finished Close() returned
    closeErrLogged, \* the last Close() logged "Unable to close consumer group"
    firedGen,       \* generation whose Setup closed a ready channel last
    firedBeforeCancel, \* some Setup fired while the context was not cancelled
    halted          \* "no" | "fatal" (log.Fatal) | "panic"

vars == <<Cancel, ctxDone, ConsumerGroup, Ready, chanClosed,
          numberOfSuccessfullyConsumedMessages, numberOfErrorsConsumingMessages,
          servePc, serveCh, driverPc, sessPc, gen, consumeErr, pc, cur, tmp, owed,
          processed, failed, nilCalls, closePc, closeCalls, closeResult,
          closeErrLogged, firedGen, firedBeforeCancel, halted>>

counterVars == <<numberOfSuccessfullyConsumedMessages, numberOfErrorsConsumingMessages>>
lifeVars == <<Cancel, ctxDone, ConsumerGroup, Ready, chanClosed, servePc, serveCh,
              driverPc, sessPc, gen, consumeErr, firedGen, firedBeforeCancel>>
closeVars == <<closePc, closeCalls, closeResult, closeErrLogged>>
claimVars == <<pc, cur, tmp, owed, processed, failed, nilCalls>>

\* NewWithSaramaConfig: the state after construction
Init ==
    /\ Cancel = FALSE
    /\ ctxDone = FALSE
    /\ ConsumerGroup = "open"
    /\ Ready = 0
    /\ chanClosed = {}
    /\ numberOfSuccessfullyConsumedMessages = 0
    /\ numberOfErrorsConsumingMessages = 0
    /\ servePc = "idle"
    /\ serveCh = 0
    /\ driverPc = "none"
    /\ sessPc = "none"
    /\ gen = 0
    /\ consumeErr = "none"
    /\ pc = [t \in Threads |-> "idle"]
    /\ cur = [t \in Threads |-> NilMsg]
    /\ tmp = [t \in Threads |-> 0]
    /\ owed = [p \in Partitions |-> 0]
    /\ processed = 0
    /\ failed = 0
    /\ nilCalls = 0
    /\ closePc = "idle"
    /\ closeCalls = 0
    /\ closeResult = "none"
    /\ closeErrLogged = FALSE
    /\ firedGen = 0
    /\ firedBeforeCancel = FALSE
    /\ halted = "no"

Running == halted = "no"

\* ------------------------------------------------------------ Serve()
\* consumer.go:137-140: make the cancellable context, store its cancel
\* function on the consumer, start the driver goroutine
Serve_Start ==
    /\ Running
    /\ servePc = "idle"
    /\ Cancel' = TRUE
    /\ driverPc' = "consume"
    /\ servePc' = "readReady"
    /\ UNCHANGED <<ctxDone, ConsumerGroup, Ready, chanClosed, serveCh, sessPc, gen, consumeErr,
                   firedGen, firedBeforeCancel, halted>>
    /\ UNCHANGED <<counterVars, claimVars, closeVars>>

\* consumer.go:163, the operand of the receive: the caller reads the field
\* consumer.Ready (unsynchronised with the driver's store at line 157)
Serve_ReadReady ==
    /\ Running
    /\ servePc = "readReady"
    /\ serveCh' = Ready
    /\ servePc' = "waitReady"
    /\ UNCHANGED <<Cancel, ctxDone, ConsumerGroup, Ready, chanClosed, driverPc, sessPc,
                   gen, consumeErr, firedGen, firedBeforeCancel, halted>>
    /\ UNCHANGED <<counterVars, claimVars, closeVars>>

\* consumer.go:163: <-consumer.Ready returns once that channel is closed
Serve_AwaitReady ==
    /\ Running
    /\ servePc = "waitReady"
    /\ serveCh \in chanClosed
    /\ servePc' = "waitDone"
    /\ UNCHANGED <<Cancel, ctxDone, ConsumerGroup, Ready, chanClosed, serveCh, driverPc,
                   sessPc, gen, consumeErr, firedGen, firedBeforeCancel, halted>>
    /\ UNCHANGED <<counterVars, claimVars, closeVars>>

\* Serve_AwaitDone without the wait of line 168: Serve returns once it is ready
Serve_AwaitDone_NoWait ==
    /\ Running
    /\ servePc = "waitDone"
    /\ servePc' = "returned"
    /\ UNCHANGED <<Cancel, ctxDone, ConsumerGroup, Ready, chanClosed, serveCh, driverPc,
                   sessPc, gen, consumeErr, firedGen, firedBeforeCancel, halted>>
    /\ UNCHANGED <<counterVars, claimVars, closeVars>>

\* consumer.go:168-172: <-ctx.Done(), cancel() (a no-op by then), return
Serve_AwaitDone ==
    /\ Running
    /\ servePc = "waitDone"
    /\ ctxDone
    /\ servePc' = "returned"
    /\ UNCHANGED <<Cancel, ctxDone, ConsumerGroup, Ready, chanClosed, serveCh, driverPc,
                   sessPc, gen, consumeErr, firedGen, firedBeforeCancel, halted>>
    /\ UNCHANGED <<counterVars, claimVars, closeVars>>

\* ------------------------------------------- the driver goroutine of Serve()
\* DriverOnConsumeResult of a driver that logs the error of Consume and goes
\* on with the loop instead of log.Fatal
DriverOnConsumeResult_Retries(err) ==
    /\ consumeErr' = err
    /\ halted' = halted
    /\ driverPc' = "checkCtx"

\* DriverOnConsumeResult of a driver that tests ctx.Err() before the error
\* of Consume: with the context cancelled it stops gracefully whatever
\* Consume returned
DriverOnConsumeResult_CtxFirst(err) ==
    /\ consumeErr' = err
    /\ IF ctxDone
       THEN /\ halted' = halted
            /\ driverPc' = "stopped"
       ELSE IF err # "nil"
       THEN /\ halted' = "fatal"
            /\ driverPc' = "fatal"
       ELSE /\ halted' = halted
            /\ driverPc' = "checkCtx"

\* consumer.go:145-147: what the driver does with the result of Consume:
\* a non-nil error is log.Fatal (the process exits), nil goes on to line 150
DriverOnConsumeResult(err) ==
    /\ consumeErr' = err
    /\ IF err # "nil"
       THEN /\ halted' = "fatal"
            /\ driverPc' = "fatal"
       ELSE /\ halted' = halted
            /\ driverPc' = "checkCtx"

\* consumer.go:145: call ConsumerGroup.Consume(ctx, topics, consumer). On a
\* closed client Consume returns ErrClosedConsumerGroup at once; otherwise the
\* client starts joining the group.
Driver_Consume ==
    /\ Running
    /\ driverPc = "consume"
    /\ gen' = gen + 1
    /\ IF ConsumerGroup = "closed"
       THEN /\ DriverOnConsumeResult("error")
            /\ UNCHANGED sessPc
       ELSE /\ driverPc' = "inConsume"
            /\ sessPc' = "joining"
            /\ UNCHANGED <<halted, consumeErr>>
    /\ UNCHANGED <<Cancel, ctxDone, ConsumerGroup, Ready, chanClosed, servePc, serveCh,
                   firedGen, firedBeforeCancel>>
    /\ UNCHANGED <<counterVars, claimVars, closeVars>>

\* Driver_CheckCtx of a driver that does not look at the context: it goes on
\* to the reset whatever ctx.Err() says
Driver_CheckCtx_IgnoresCtx ==
    /\ Running
    /\ driverPc = "checkCtx"
    /\ driverPc' = "reset"
    /\ UNCHANGED <<Cancel, ctxDone, ConsumerGroup, Ready, chanClosed, servePc, serveCh,
                   sessPc, gen, consumeErr, firedGen, firedBeforeCancel, halted>>
    /\ UNCHANGED <<counterVars, claimVars, closeVars>>

\* consumer.go:150-153: if ctx.Err() != nil the goroutine returns
Driver_CheckCtx ==
    /\ Running
    /\ driverPc = "checkCtx"
    /\ driverPc' = IF ctxDone THEN "stopped" ELSE "reset"
    /\ UNCHANGED <<Cancel, ctxDone, ConsumerGroup, Ready, chanClosed, servePc, serveCh,
                   sessPc, gen, consumeErr, firedGen, firedBeforeCancel, halted>>
    /\ UNCHANGED <<counterVars, claimVars, closeVars>>

\* Driver_ResetReady without the replacement of line 157: the driver re-enters
\* Consume with the channel of the generation before
Driver_ResetReady_KeepChannel ==
    /\ Running
    /\ driverPc = "reset"
    /\ driverPc' = "consume"
    /\ UNCHANGED <<Cancel, ctxDone, ConsumerGroup, Ready, chanClosed, servePc, serveCh,
                   sessPc, gen, consumeErr, firedGen, firedBeforeCancel, halted>>
    /\ UNCHANGED <<counterVars, claimVars, closeVars>>

\* Driver_ResetReady of a driver that treats a rebalance as the end: it
\* leaves the loop instead of replacing the channel and re-entering Consume
Driver_ResetReady_Stops ==
    /\ Running
    /\ driverPc = "reset"
    /\ driverPc' = "stopped"
    /\ UNCHANGED <<Cancel, ctxDone, ConsumerGroup, Ready, chanClosed, servePc, serveCh,
                   sessPc, gen, consumeErr, firedGen, firedBeforeCancel, halted>>
    /\ UNCHANGED <<counterVars, claimVars, closeVars>>

\* consumer.go:157: consumer.Ready = make(chan bool); channel gen is the one
\* made after generation gen
Driver_ResetReady ==
    /\ Running
    /\ driverPc = "reset"
    /\ Ready' = gen
    /\ driverPc' = "consume"
    /\ UNCHANGED <<Cancel, ctxDone, ConsumerGroup, chanClosed, servePc, serveCh,
                   sessPc, gen, consumeErr, firedGen, firedBeforeCancel, halted>>
    /\ UNCHANGED <<counterVars, claimVars, closeVars>>

\* ------------------------------------- the group client inside Consume
\* Consume returns before it called Setup: with an error (the join failed, the
\* client was closed meanwhile), or with nil once the context is cancelled
Consume_ReturnEarly(err) ==
    /\ Running
    /\ sessPc = "joining"
    /\ err = "nil" => ctxDone
    /\ sessPc' = "none"
    /\ DriverOnConsumeResult(err)
    /\ UNCHANGED <<Cancel, ctxDone, ConsumerGroup, Ready, chanClosed, servePc, serveCh,
                   gen, firedGen, firedBeforeCancel>>
    /\ UNCHANGED <<counterVars, claimVars, closeVars>>

\* consumer.go:178: close(consumer.Ready); closing a closed channel panics
CloseReady ==
    IF Ready \in chanClosed
    THEN /\ halted' = "panic"
         /\ chanClosed' = chanClosed
    ELSE /\ halted' = halted
         /\ chanClosed' = chanClosed \cup {Ready}

\* consumer.go:175-180: Setup, called by the group client once the session is
\* joined; after it the client starts one ConsumeClaim per partition
Setup ==
    /\ Running
    /\ sessPc = "joining"
    /\ CloseReady
    /\ firedGen' = gen
    /\ firedBeforeCancel' = (firedBeforeCancel \/ ~ctxDone)
    /\ sessPc' = "consuming"
    /\ pc' = [t \in Threads |-> IF t \in Partitions THEN "range" ELSE pc[t]]
    /\ UNCHANGED <<Cancel, ctxDone, ConsumerGroup, Ready, servePc, serveCh, driverPc, gen,
                   consumeErr>>
    /\ UNCHANGED <<counterVars, closeVars>>
    /\ UNCHANGED <<cur, tmp, owed, processed, failed, nilCalls>>

\* the generation ends (a rebalance, the cancelled context or the closed
\* client): the client closes every claim.Messages() channel
Session_End ==
    /\ Running
    /\ sessPc = "consuming"
    /\ ctxDone \/ ConsumerGroup = "closed" \/ gen < MaxGen
    /\ sessPc' = "ending"
    /\ UNCHANGED <<Cancel, ctxDone, ConsumerGroup, Ready, chanClosed, servePc, serveCh,
                   driverPc, gen, consumeErr, firedGen, firedBeforeCancel, halted>>
    /\ UNCHANGED <<counterVars, claimVars, closeVars>>

\* consumer.go:183-186: Cleanup, once all ConsumeClaim goroutines have exited
Cleanup ==
    /\ Running
    /\ sessPc = "ending"
    /\ \A p \in Partitions : pc[p] = "exited"
    /\ sessPc' = "cleaned"
    /\ UNCHANGED <<Cancel, ctxDone, ConsumerGroup, Ready, chanClosed, servePc, serveCh,
                   driverPc, gen, consumeErr, firedGen, firedBeforeCancel, halted>>
    /\ UNCHANGED <<counterVars, claimVars, closeVars>>

\* Consume returns after Cleanup, with nil or with an error
Consume_Return(err) ==
    /\ Running
    /\ sessPc = "cleaned"
    /\ sessPc' = "none"
    /\ pc' = [t \in Threads |-> IF t \in Partitions THEN "idle" ELSE pc[t]]
    /\ DriverOnConsumeResult(err)
    /\ UNCHANGED <<Cancel, ctxDone, ConsumerGroup, Ready, chanClosed, servePc, serveCh,
                   gen, firedGen, firedBeforeCancel>>
    /\ UNCHANGED <<counterVars, closeVars>>
    /\ UNCHANGED <<cur, tmp, owed, processed, failed, nilCalls>>

\* ------------------------------------------------------- HandleMessage
\* consumer.go:277-287. The shipped ProcessMessage returns nil for every
\* message; "bad" stands for a message on which a replaced ProcessMessage (the
\* method is the Consumer interface's integration point) returns an error.
ProcessMessage(msg) == IF msg = "bad" THEN "error" ELSE "nil"

\* HandleMessage_Enter without the nil check of lines 237-240: a nil message
\* goes on to be processed and counted as an error
HandleMessage_Enter_NoNilCheck(t, msg, back) ==
    /\ nilCalls' = IF msg = NilMsg THEN nilCalls + 1 ELSE nilCalls
    /\ processed' = processed + 1
    /\ failed' = IF ProcessMessage(msg) # "nil" \/ msg = NilMsg THEN failed + 1 ELSE failed
    /\ cur' = [cur EXCEPT ![t] = IF msg = NilMsg THEN "bad" ELSE msg]
    /\ tmp' = [tmp EXCEPT ![t] = IF ProcessMessage(msg) # "nil" \/ msg = NilMsg
                                 THEN numberOfErrorsConsumingMessages
                                 ELSE numberOfSuccessfullyConsumedMessages]
    /\ pc' = [pc EXCEPT ![t] = "incr"]

\* consumer.go:236-263, up to the read of the counter that ++ starts with:
\* nil returns at once to `back`; otherwise ProcessMessage runs and thread t
\* reads the counter it is going to increment
HandleMessage_Enter(t, msg, back) ==
    IF msg = NilMsg
    THEN /\ nilCalls' = nilCalls + 1
         /\ pc' = [pc EXCEPT ![t] = back]
         /\ UNCHANGED <<cur, tmp, processed, failed>>
    ELSE /\ processed' = processed + 1
         /\ failed' = IF ProcessMessage(msg) # "nil" THEN failed + 1 ELSE failed
         /\ cur' = [cur EXCEPT ![t] = msg]
         /\ tmp' = [tmp EXCEPT ![t] = IF ProcessMessage(msg) # "nil"
                                      THEN numberOfErrorsConsumingMessages
                                      ELSE numberOfSuccessfullyConsumedMessages]
         /\ pc' = [pc EXCEPT ![t] = "incr"]
         /\ UNCHANGED nilCalls

\* HandleMessage_Incr with the branches of lines 255-263 both counting a
\* success: a processing error is not counted as an error
HandleMessage_Incr_ErrorAsSuccess(t) ==
    /\ Running
    /\ pc[t] = "incr"
    /\ numberOfSuccessfullyConsumedMessages' =
           IF ProcessMessage(cur[t]) # "nil"
           THEN numberOfSuccessfullyConsumedMessages + 1
           ELSE tmp[t] + 1
    /\ UNCHANGED numberOfErrorsConsumingMessages
    /\ tmp' = [tmp EXCEPT ![t] = 0]
    /\ pc' = [pc EXCEPT ![t] = IF t \in Partitions THEN "mark" ELSE "idle"]
    /\ cur' = [cur EXCEPT ![t] = NilMsg]
    /\ UNCHANGED <<owed, processed, failed, nilCalls>>
    /\ UNCHANGED <<lifeVars, closeVars, halted>>

\* HandleMessage_Incr of a consumer whose ConsumeClaim returns the processing
\* error of a message: the claim loop is left without marking the message
HandleMessage_Incr_AbortsOnError(t) ==
    /\ Running
    /\ pc[t] = "incr"
    /\ IF ProcessMessage(cur[t]) # "nil"
       THEN /\ numberOfErrorsConsumingMessages' = tmp[t] + 1
            /\ UNCHANGED numberOfSuccessfullyConsumedMessages
       ELSE /\ numberOfSuccessfullyConsumedMessages' = tmp[t] + 1
            /\ UNCHANGED numberOfErrorsConsumingMessages
    /\ tmp' = [tmp EXCEPT ![t] = 0]
    /\ pc' = [pc EXCEPT ![t] = IF t \notin Partitions THEN "idle"
                               ELSE IF ProcessMessage(cur[t]) # "nil" THEN "aborted"
                               ELSE "mark"]
    /\ cur' = [cur EXCEPT ![t] = NilMsg]
    /\ UNCHANGED <<owed, processed, failed, nilCalls>>
    /\ UNCHANGED <<lifeVars, closeVars, halted>>

\* consumer.go:259 / 262, the store that ends ++, then the summary log line
\* and the return (to the direct caller, or to ConsumeClaim's MarkMessage)
HandleMessage_Incr(t) ==
    /\ Running
    /\ pc[t] = "incr"
    /\ IF ProcessMessage(cur[t]) # "nil"
       THEN /\ numberOfErrorsConsumingMessages' = tmp[t] + 1
            /\ UNCHANGED numberOfSuccessfullyConsumedMessages
       ELSE /\ numberOfSuccessfullyConsumedMessages' = tmp[t] + 1
            /\ UNCHANGED numberOfErrorsConsumingMessages
    /\ tmp' = [tmp EXCEPT ![t] = 0]
    /\ pc' = [pc EXCEPT ![t] = IF t \in Partitions THEN "mark" ELSE "idle"]
    /\ cur' = [cur EXCEPT ![t] = NilMsg]
    /\ UNCHANGED <<owed, processed, failed, nilCalls>>
    /\ UNCHANGED <<lifeVars, closeVars, halted>>

\* HandleMessage called directly (thread 0), as a test or another caller does
HandleMessage_Direct(msg) ==
    /\ Running
    /\ pc[0] = "idle"
    /\ IF msg = NilMsg THEN nilCalls < MaxNil ELSE processed < MaxDirect
    /\ HandleMessage_Enter(0, msg, "idle")
    /\ UNCHANGED owed
    /\ UNCHANGED <<counterVars, lifeVars, closeVars, halted>>

\* -------------------------------------------------------- ConsumeClaim
\* ConsumeClaim_Range with lines 198 and 200 swapped: the message is marked
\* before it is handled
ConsumeClaim_Range_MarkFirst(p, msg) ==
    /\ Running
    /\ pc[p] = "range"
    /\ sessPc = "consuming"
    /\ UNCHANGED owed
    /\ HandleMessage_Enter(p, msg, "mark")
    /\ UNCHANGED <<counterVars, lifeVars, closeVars, halted>>

\* consumer.go:194-198: the range loop receives the next message of the claim
\* and calls HandleMessage on it
ConsumeClaim_Range(p, msg) ==
    /\ Running
    /\ pc[p] = "range"
    /\ sessPc = "consuming"
    /\ owed' = [owed EXCEPT ![p] = owed[p] + 1]
    /\ HandleMessage_Enter(p, msg, "mark")
    /\ UNCHANGED <<counterVars, lifeVars, closeVars, halted>>

\* consumer.go:200: session.MarkMessage(message, "")
ConsumeClaim_Mark(p) ==
    /\ Running
    /\ pc[p] = "mark"
    /\ owed' = [owed EXCEPT ![p] = owed[p] - 1]
    /\ pc' = [pc EXCEPT ![p] = "range"]
    /\ UNCHANGED <<cur, tmp, processed, failed, nilCalls>>
    /\ UNCHANGED <<counterVars, lifeVars, closeVars, halted>>

\* ConsumeClaim_Return of a loop that does not notice that claim.Messages()
\* was closed: the goroutine stays in the loop
ConsumeClaim_Return_StaysInLoop(p) ==
    /\ Running
    /\ pc[p] = "range"
    /\ sessPc = "ending"
    /\ pc' = [pc EXCEPT ![p] = "range"]
    /\ UNCHANGED <<cur, tmp, owed, processed, failed, nilCalls>>
    /\ UNCHANGED <<counterVars, lifeVars, closeVars, halted>>

\* consumer.go:194, 203: claim.Messages() is closed, the loop ends, return nil
ConsumeClaim_Return(p) ==
    /\ Running
    /\ pc[p] = "range"
    /\ sessPc = "ending"
    /\ pc' = [pc EXCEPT ![p] = "exited"]
    /\ UNCHANGED <<cur, tmp, owed, processed, failed, nilCalls>>
    /\ UNCHANGED <<counterVars, lifeVars, closeVars, halted>>

\* -------------------------------------------------------------- Close()
\* Close_Cancel without the nil guard of line 208: calling the nil
\* consumer.Cancel panics
Close_Cancel_NoNilGuard ==
    /\ Running
    /\ closePc = "idle"
    /\ closeCalls < MaxClose
    /\ closeCalls' = closeCalls + 1
    /\ IF Cancel
       THEN /\ ctxDone' = TRUE
            /\ closePc' = "group"
            /\ UNCHANGED halted
       ELSE /\ halted' = "panic"
            /\ UNCHANGED <<ctxDone, closePc>>
    /\ UNCHANGED <<closeResult, closeErrLogged>>
    /\ UNCHANGED <<Cancel, ConsumerGroup, Ready, chanClosed, servePc, serveCh,
                   driverPc, sessPc, gen, consumeErr, firedGen, firedBeforeCancel>>
    /\ UNCHANGED <<counterVars, claimVars>>

\* Close_Cancel of a Close() that cancels the context whether or not
\* consumer.Cancel was set when it looked
Close_Cancel_Unconditional ==
    /\ Running
    /\ closePc = "idle"
    /\ closeCalls < MaxClose
    /\ closeCalls' = closeCalls + 1
    /\ ctxDone' = TRUE
    /\ closePc' = "group"
    /\ UNCHANGED <<closeResult, closeErrLogged, halted>>
    /\ UNCHANGED <<Cancel, ConsumerGroup, Ready, chanClosed, servePc, serveCh,
                   driverPc, sessPc, gen, consumeErr, firedGen, firedBeforeCancel>>
    /\ UNCHANGED <<counterVars, claimVars>>

\* consumer.go:208-210: if consumer.Cancel != nil { consumer.Cancel() }
Close_Cancel ==
    /\ Running
    /\ closePc = "idle"
    /\ closeCalls < MaxClose
    /\ closeCalls' = closeCalls + 1
    /\ ctxDone' = IF Cancel THEN TRUE ELSE ctxDone
    /\ closePc' = "group"
    /\ UNCHANGED <<closeResult, closeErrLogged, halted>>
    /\ UNCHANGED <<Cancel, ConsumerGroup, Ready, chanClosed, servePc, serveCh,
                   driverPc, sessPc, gen, consumeErr, firedGen, firedBeforeCancel>>
    /\ UNCHANGED <<counterVars, claimVars>>

\* Close_Group of a Close() that returns the error of ConsumerGroup.Close()
Close_Group_ReturnsErr(err) ==
    /\ Running
    /\ closePc = "group"
    /\ IF ConsumerGroup # "nil"
       THEN /\ ConsumerGroup' = "closed"
            /\ closeErrLogged' = (err # "nil")
            /\ closeResult' = err
       ELSE /\ UNCHANGED ConsumerGroup
            /\ closeErrLogged' = FALSE
            /\ closeResult' = "nil"
    /\ closePc' = "idle"
    /\ UNCHANGED <<closeCalls, halted>>
    /\ UNCHANGED <<Cancel, ctxDone, Ready, chanClosed, servePc, serveCh,
                   driverPc, sessPc, gen, consumeErr, firedGen, firedBeforeCancel>>
    /\ UNCHANGED <<counterVars, claimVars>>

\* consumer.go:212-220: close the group client when there is one, log its
\* error, return nil
Close_Group(err) ==
    /\ Running
    /\ closePc = "group"
    /\ IF ConsumerGroup # "nil"
       THEN /\ ConsumerGroup' = "closed"
            /\ closeErrLogged' = (err # "nil")
       ELSE /\ UNCHANGED ConsumerGroup
            /\ closeErrLogged' = FALSE
    /\ closeResult' = "nil"
    /\ closePc' = "idle"
    /\ UNCHANGED <<closeCalls, halted>>
    /\ UNCHANGED <<Cancel, ctxDone, Ready, chanClosed, servePc, serveCh,
                   driverPc, sessPc, gen, consumeErr, firedGen, firedBeforeCancel>>
    /\ UNCHANGED <<counterVars, claimVars>>

\* ------------------------------------------------------ specifications
Errs == {"nil", "error"}

Next ==
    \/ Serve_Start
    \/ Serve_ReadReady
    \/ Serve_AwaitReady
    \/ Serve_AwaitDone
    \/ Driver_Consume
    \/ Driver_CheckCtx
    \/ Driver_ResetReady
    \/ \E err \in Errs : Consume_ReturnEarly(err)
    \/ Setup
    \/ Session_End
    \/ Cleanup
    \/ \E err \in Errs : Consume_Return(err)
    \/ \E p \in Partitions, msg \in Messages :
          processed < MaxMsgs /\ ConsumeClaim_Range(p, msg)
    \/ \E p \in Partitions : HandleMessage_Incr(p)
    \/ \E p \in Partitions : ConsumeClaim_Mark(p)
    \/ \E p \in Partitions : ConsumeClaim_Return(p)
    \/ Close_Cancel
    \/ \E err \in Errs : Close_Group(err)

\* the whole consumer: Serve, its driver, the group client's callbacks (one
\* ConsumeClaim goroutine per partition, running concurrently), Close
Spec == Init /\ [][Next]_vars

\* HandleMessage called on the consumer by one caller, one call after another
SeqNext ==
    \/ \E msg \in Messages \cup {NilMsg} : HandleMessage_Direct(msg)
    \/ HandleMessage_Incr(0)

SeqSpec == Init /\ [][SeqNext]_vars

\* one generation: Serve starts, the session is set up, and the ConsumeClaim
\* loops of its partitions handle messages concurrently
ClaimNext ==
    \/ Serve_Start
    \/ Driver_Consume
    \/ Setup
    \/ \E p \in Partitions, msg \in Messages :
          processed < MaxClaimMsgs /\ ConsumeClaim_Range(p, msg)
    \/ \E p \in Partitions : HandleMessage_Incr(p)
    \/ \E p \in Partitions : ConsumeClaim_Mark(p)

ClaimSpec == Init /\ [][ClaimNext]_vars

\* Scheduling: a goroutine that can take a step eventually takes it (the
\* caller of Serve, the driver, each ConsumeClaim, a Close under way), and the
\* group client ends its join, ends a session whose context is cancelled, and
\* finishes a session that is ending. Nothing forces Serve or Close to be
\* called, a message to arrive, or a rebalance to happen.
ServeSteps == Serve_ReadReady \/ Serve_AwaitReady \/ Serve_AwaitDone

DriverSteps ==
    \/ Driver_Consume
    \/ Driver_CheckCtx
    \/ Driver_ResetReady
    \/ Setup
    \/ \E err \in Errs : Consume_ReturnEarly(err)
    \/ (ctxDone /\ Session_End)
    \/ Cleanup
    \/ \E err \in Errs : Consume_Return(err)

ClaimSteps(p) == HandleMessage_Incr(p) \/ ConsumeClaim_Mark(p) \/ ConsumeClaim_Return(p)

Fairness ==
    /\ WF_vars(ServeSteps)
    /\ WF_vars(DriverSteps)
    /\ \A p \in Partitions : WF_vars(ClaimSteps(p))
    /\ WF_vars(\E err \in Errs : Close_Group(err))

FairSpec == Init /\ [][Next]_vars /\ Fairness

\* ================================================================ claims

\* C1: whenever Close() has cancelled the context of a started Serve() before
\* any message was delivered, Serve() eventually returns to its caller. (The
\* exit of the process by log.Fatal is set aside: what is asked is that the
\* caller does not stay blocked.)
C1_CloseBeforeAnyMessageEndsServe ==
    (ctxDone /\ processed = 0) ~> (servePc = "returned" \/ halted = "fatal")

\* C2: a Close() that finds consumer.Cancel nil does not panic and cancels
\* nothing, and every Close(), that one included, goes on to close the group
\* client and returns nil.
C2_CloseWithNilCancel ==
    [][/\ (closeCalls' = closeCalls + 1 /\ ~Cancel)
            => (halted' = "no" /\ ctxDone' = ctxDone /\ closePc' = "group")
       /\ (closePc = "group" /\ closePc' # "group")
            => (halted' = "no" /\ ConsumerGroup' = "closed" /\ closeResult' = "nil")]_vars

\* a Close() has run to its end on a consumer whose Serve() was never called
C2_Witness ==
    /\ ~Cancel
    /\ servePc = "idle"
    /\ closeCalls = 1
    /\ closePc = "idle"
    /\ ConsumerGroup = "closed"
    /\ closeResult = "nil"
    /\ halted = "no"

\* C3: after N non-nil messages given one after another to HandleMessage on a
\* fresh consumer, K of which ProcessMessage failed on, the success counter is
\* N - K and the error counter is K.
C3_SequentialCounts ==
    pc[0] = "idle" =>
        /\ numberOfSuccessfullyConsumedMessages = processed - failed
        /\ numberOfErrorsConsumingMessages = failed

\* N = 5 messages handled, K = 2 of them failed
C3_Witness ==
    /\ pc[0] = "idle"
    /\ processed = 5
    /\ failed = 2
    /\ numberOfSuccessfullyConsumedMessages = 3
    /\ numberOfErrorsConsumingMessages = 2

\* C4: with ConsumeClaim loops running concurrently, once no HandleMessage is
\* under way the two counters add up to the number of messages handled: no
\* increment is lost.
C4_NoLostIncrement ==
    (\A t \in Threads : pc[t] # "incr") =>
        numberOfSuccessfullyConsumedMessages + numberOfErrorsConsumingMessages = processed

\* C5: HandleMessage(nil) is one step that changes neither counter, does not
\* call ProcessMessage, does not panic and returns to its caller.
C5_NilMessageIgnored ==
    [][nilCalls' # nilCalls =>
          /\ numberOfSuccessfullyConsumedMessages' = numberOfSuccessfullyConsumedMessages
          /\ numberOfErrorsConsumingMessages' = numberOfErrorsConsumingMessages
          /\ processed' = processed
          /\ pc' = pc
          /\ halted' = "no"]_vars

\* a nil message was handled by a consumer that has counted a success and an error
C5_Witness ==
    /\ nilCalls = 1
    /\ pc[0] = "idle"
    /\ numberOfSuccessfullyConsumedMessages = 1
    /\ numberOfErrorsConsumingMessages = 1

\* C6: in ConsumeClaim a message received from the claim is marked exactly
\* once, after HandleMessage returned and before the next message is
\* received: a partition owes one mark from the receipt of a message until
\* its MarkMessage, and none otherwise, whatever ProcessMessage returned.
C6_MarkedOncePerMessage ==
    \A p \in Partitions : owed[p] = IF pc[p] \in {"incr", "mark"} THEN 1 ELSE 0

\* two messages, both failing in ProcessMessage, have been handled and marked
C6_Witness ==
    /\ processed = 2
    /\ failed = 2
    /\ numberOfErrorsConsumingMessages = 2
    /\ \A p \in Partitions : pc[p] = "range" /\ owed[p] = 0

\* C7: no Setup closes a closed ready channel, and the channel a generation's
\* Setup closes is the one made for that generation (the constructor's for
\* the first, the driver's replacement for each later one): it is open while
\* the generation joins and fired by that generation afterwards.
C7_ReadyFiredOncePerGeneration ==
    /\ halted # "panic"
    /\ sessPc = "joining" => (Ready = gen - 1 /\ Ready \notin chanClosed)
    /\ sessPc \in {"consuming", "ending", "cleaned"}
          => (Ready = gen - 1 /\ Ready \in chanClosed /\ firedGen = gen)

\* the second generation's Setup has fired the driver's replacement channel
C7_Witness ==
    /\ gen = 2
    /\ sessPc = "consuming"
    /\ Ready = 1
    /\ chanClosed = {0, 1}
    /\ halted = "no"

\* C8: once the first generation's Setup has fired, the caller of Serve() is
\* not left waiting for a ready channel that only a later Setup can fire.
C8_FirstFiringReleasesServe ==
    (servePc = "waitReady" /\ 0 \in chanClosed) => serveCh \in chanClosed

\* C9 (as claimed): Serve() returns only after a ready firing that came
\* before the cancellation of the context.
C9_ReturnAfterReadyThenCancel ==
    servePc = "returned" => (serveCh \in chanClosed /\ ctxDone /\ firedBeforeCancel)

\* C9 (amended): Serve() returns only when the ready channel it waited on has
\* fired and the context is cancelled, in whichever order the two happened.
C9_ReturnAfterReadyAndCancel ==
    servePc = "returned" => (serveCh \in chanClosed /\ ctxDone)

\* Serve() has returned in a run where Close() cancelled before the Setup fired
C9_Witness ==
    /\ servePc = "returned"
    /\ ~firedBeforeCancel

\* a session exists only while the driver is inside Consume, and ConsumeClaim
\* loops run only inside that session
OneSession ==
    /\ sessPc # "none" => driverPc = "inConsume"
    /\ (\E p \in Partitions : pc[p] \in {"range", "incr", "mark"})
          => sessPc \in {"consuming", "ending"}

\* C10 (as claimed): at most one session is active, and the consumer's ready
\* channel is fired only on behalf of the generation that is active now.
C10_ReadyUnfiredOrActive ==
    /\ OneSession
    /\ Ready \in chanClosed => (sessPc # "none" /\ firedGen = gen)

\* C10 (amended): at most one session is active, and the consumer's ready
\* channel is fired only by the latest generation, which may have ended.
C10_ReadyUnfiredOrLatest ==
    /\ OneSession
    /\ Ready \in chanClosed => firedGen = gen

\* the generation ended, the driver stopped, the ready channel stays fired
C10_Witness ==
    /\ sessPc = "none"
    /\ driverPc = "stopped"
    /\ Ready \in chanClosed
    /\ firedGen = gen

\* C11: no step decreases or resets the success counter or the error counter,
\* and no step raises their sum by more than 1.
C11_CountersMonotone ==
    [][/\ numberOfSuccessfullyConsumedMessages' >= numberOfSuccessfullyConsumedMessages
       /\ numberOfErrorsConsumingMessages' >= numberOfErrorsConsumingMessages
       /\ numberOfSuccessfullyConsumedMessages' + numberOfErrorsConsumingMessages'
            <= numberOfSuccessfullyConsumedMessages + numberOfErrorsConsumingMessages + 1]_vars

\* C12: when Consume has returned nil and the driver's check of the context
\* (line 150) finds it not cancelled, the driver's next step replaces the
\* ready channel by a fresh one that nobody has closed, its step after that
\* calls Consume again (a new generation), and under fairness of the driver
\* goroutine that call always comes.
C12_RebalanceReentersConsume ==
    /\ [][(driverPc = "checkCtx" /\ consumeErr = "nil" /\ ~ctxDone /\ driverPc' # driverPc)
            => driverPc' = "reset"]_vars
    /\ [][(driverPc = "reset" /\ driverPc' # driverPc)
            => /\ driverPc' = "consume"
               /\ Ready' # Ready
               /\ Ready' \notin chanClosed']_vars
    /\ [][(driverPc = "consume" /\ driverPc' # driverPc)
            => /\ gen' = gen + 1
               /\ driverPc' \in {"inConsume", "fatal"}]_vars
    /\ (driverPc = "reset") ~> (driverPc \in {"inConsume", "fatal"})

\* after a rebalance the second generation is being joined on a fresh channel
C12_Witness ==
    /\ gen = 2
    /\ driverPc = "inConsume"
    /\ sessPc = "joining"
    /\ Ready = 1
    /\ Ready \notin chanClosed
    /\ ~ctxDone

\* C13: when the driver, after a return of Consume, finds the context
\* cancelled, it stops, and a stopped driver stays stopped: no later step
\* calls Consume (gen is the number of calls) or replaces the ready channel.
C13_CancelledDriverStops ==
    /\ [][(driverPc = "checkCtx" /\ ctxDone /\ driverPc' # driverPc)
            => driverPc' = "stopped"]_vars
    /\ [][driverPc = "stopped"
            => /\ driverPc' = "stopped"
               /\ gen' = gen
               /\ Ready' = Ready
               /\ sessPc' = "none"]_vars

\* the driver stopped after a generation that handled a message, and Serve
\* and a second Close have run to their ends since
C13_Witness ==
    /\ driverPc = "stopped"
    /\ servePc = "returned"
    /\ processed >= 1
    /\ closeCalls = 2
    /\ closePc = "idle"

\* C14: a non-nil error returned by Consume halts the process at once
\* (log.Fatal), and in the halted process nothing happens any more: Consume is
\* not called again, the ready channel is not replaced, no message is taken,
\* handled, counted or marked.
C14_ConsumeErrorIsFatal ==
    /\ [](consumeErr = "error" => (halted = "fatal" /\ driverPc = "fatal"))
    /\ [][halted = "fatal"
            => /\ gen' = gen
               /\ driverPc' = "fatal"
               /\ Ready' = Ready
               /\ processed' = processed
               /\ pc' = pc
               /\ owed' = owed
               /\ counterVars' = counterVars]_vars

\* the second Consume failed after a first generation that handled messages
C14_Witness ==
    /\ halted = "fatal"
    /\ consumeErr = "error"
    /\ gen = 2
    /\ processed >= 1

\* C15: once Close() has cancelled the context while Serve() is past its ready
\* wait, then under fair scheduling, and unless Consume answers the
\* cancellation with an error (the fatal halt of C14), the generation ends,
\* the driver stops without calling Consume again, and Serve() returns.
C15_CloseAfterReadyEndsServe ==
    (ctxDone /\ servePc = "waitDone")
        ~> (\/ halted = "fatal"
            \/ /\ servePc = "returned"
               /\ driverPc = "stopped"
               /\ sessPc = "none"
               /\ \A p \in Partitions : pc[p] = "idle")

\* Close() came after the first Setup and after a message was handled; the
\* generation ended with nil, the driver stopped, Serve() returned
C15_Witness ==
    /\ servePc = "returned"
    /\ driverPc = "stopped"
    /\ sessPc = "none"
    /\ consumeErr = "nil"
    /\ firedBeforeCancel
    /\ processed >= 1
    /\ gen = 1

\* C16: whatever ProcessMessage returns for a message, the ConsumeClaim loop
\* goes on: a handled message, failed or not, is marked and the loop takes
\* the next one; the loop is left only at its head, when the session has
\* closed the claim's messages, with every received message marked, and it
\* is left by the return nil of line 203 (never by an error return).
C16_ErrorDoesNotAbortClaim ==
    /\ [][\A p \in Partitions :
            /\ (pc[p] = "range" /\ pc'[p] # pc[p]) => pc'[p] \in {"incr", "exited"}
            /\ (pc[p] = "incr" /\ pc'[p] # pc[p]) => pc'[p] = "mark"
            /\ (pc[p] = "mark" /\ pc'[p] # pc[p]) => pc'[p] = "range"
            /\ (pc[p] # "exited" /\ pc'[p] = "exited")
                  => (pc[p] = "range" /\ sessPc = "ending" /\ owed[p] = 0)]_vars
    /\ [](\A p \in Partitions : pc[p] \in {"idle", "range", "incr", "mark", "exited"})

\* both messages of the generation failed, and both loops ran to their ends
C16_Witness ==
    /\ failed = 2
    /\ processed = 2
    /\ numberOfErrorsConsumingMessages >= 1
    /\ \A p \in Partitions : pc[p] = "exited" /\ owed[p] = 0

\* C17: Close() returns nil whether or not ConsumerGroup.Close() failed, and
\* it touches the group client only in its second step: its first step has by
\* then called consumer.Cancel when that was set, which cancels the context.
C17_CloseSwallowsClientError ==
    /\ [](closeResult \in {"none", "nil"})
    /\ [][(closePc = "idle" /\ closePc' = "group")
            => /\ ctxDone' = (ctxDone \/ Cancel)
               /\ ConsumerGroup' = ConsumerGroup]_vars
    /\ [][(closePc = "group" /\ closePc' = "idle") => closeResult' = "nil"]_vars
    /\ [][ConsumerGroup' # ConsumerGroup
            => (closePc = "group" /\ closePc' = "idle")]_vars

\* a Close() of a running consumer whose client failed to close has returned
C17_Witness ==
    /\ closeErrLogged
    /\ closeResult = "nil"
    /\ closePc = "idle"
    /\ ConsumerGroup = "closed"
    /\ ctxDone

\* C18: the driver looks at the error of Consume before it looks at the
\* context: an error returned with the context already cancelled still ends
\* in the fatal halt, and the driver is found stopped gracefully only after a
\* nil return with the context cancelled.
C18_ErrorTestedBeforeCancellation ==
    /\ [][(consumeErr' = "error" /\ ctxDone /\ driverPc' # driverPc)
            => (halted' = "fatal" /\ driverPc' = "fatal")]_vars
    /\ [](driverPc = "stopped" => (consumeErr = "nil" /\ ctxDone))
    /\ [](driverPc \in {"checkCtx", "reset"} => consumeErr = "nil")

\* Close() cancelled the context and returned; Consume then returned an error
C18_Witness ==
    /\ halted = "fatal"
    /\ consumeErr = "error"
    /\ ctxDone
    /\ closeCalls = 1
    /\ closePc = "idle"
    /\ firedBeforeCancel

\* C19: a Close() that finds consumer.Cancel nil (Serve() has not stored it
\* yet) leaves the context uncancelled; the context is cancelled only by a
\* Close() that finds the handle set; and Serve() does not return while the
\* context is uncancelled, whatever Close() calls came before.
C19_EarlyCloseCancelsNothing ==
    /\ [][(closeCalls' = closeCalls + 1 /\ ~Cancel) => ctxDone' = ctxDone]_vars
    /\ [][ctxDone' # ctxDone
            => (Cancel /\ closeCalls' = closeCalls + 1 /\ ctxDone')]_vars
    /\ [](~ctxDone => servePc # "returned")

\* a Close() that began before Serve() has returned; Serve() is past its
\* ready wait and waits on a context nobody has cancelled
C19_Witness ==
    /\ closeCalls = 1
    /\ closePc = "idle"
    /\ closeResult = "nil"
    /\ Cancel
    /\ ~ctxDone
    /\ servePc = "waitDone"

====
